---- MODULE Spec2Model ----
(***************************************************************************)
(* Model of src/bot/main.py: a Telegram habit / mood / reminder bot.       *)
(*                                                                         *)
(* State: the four SQLite tables (habits, habit_logs, mood, reminders),    *)
(* the AUTOINCREMENT counter of habits, the in-memory conversation state   *)
(* and user_data of the ConversationHandler, the inline buttons that have  *)
(* been rendered into the chat, the server's calendar date, and the        *)
(* outcome of the last handled event / poll tick.                          *)
(*                                                                         *)
(* Updates are processed one at a time (python-telegram-bot's default,     *)
(* concurrent_updates is off) and no handler awaits between its reads and  *)
(* its commit, so a handler is one atomic action.  All users talk to the   *)
(* bot in one shared chat, so the conversation key (chat_id, user_id) is   *)
(* determined by the user and every rendered button can be pressed by      *)
(* every user.                                                             *)
(*                                                                         *)
(* Tables are sequences of rows in rowid order.  Strings the code parses   *)
(* or matches are sequences of one-character strings (command arguments,   *)
(* message texts) or of "_"-separated tokens (callback payloads).          *)
(***************************************************************************)
EXTENDS Integers, Sequences, FiniteSets, TLC

\* ---------------------------------------------------------------- bounds
MaxHabitId  == 6   \* habits.id never exceeds this (inserts are guarded)
MaxLogRows  == 2   \* rows of habit_logs
MaxMoodRows == 3   \* rows of mood
MaxDay      == 2   \* calendar days the server clock runs through
MaxParts    == 3   \* "_"-separated tokens of a rendered callback payload

\* ------------------------------------------------------------- constants
CHOOSING      == 0
ADDING        == 1
REMOVING      == 2
EDITING       == 3
EDITING_VALUE == 4
END           == 0 - 1   \* ConversationHandler.END; also "no conversation"

Users == {1, 2}
Days  == 1..MaxDay
None  == 0               \* Python None where an integer id is expected

\* ------------------------------------------------------ strings, parsing
DigitChars == {"0", "1", "2", "3", "4", "5", "6", "7", "8", "9"}

\* str(i) for the integers the bot formats into payloads, and int(s).
NumStr == <<"0", "1", "2", "3", "4", "5", "6", "7", "8", "9", "10">>
ToStr(i) == NumStr[i + 1]
IsInt(s) == \E i \in 0..10 : NumStr[i + 1] = s
ToInt(s) == CHOOSE i \in 0..10 : NumStr[i + 1] = s

\* str.strip() on a message text.
IsSpace(c) == c \in {" ", "\n", "\t"}
RECURSIVE LStrip(_)
LStrip(s) == IF s # <<>> /\ IsSpace(Head(s)) THEN LStrip(Tail(s)) ELSE s
RECURSIVE RStrip(_)
RStrip(s) ==
    IF s # <<>> /\ IsSpace(s[Len(s)]) THEN RStrip(SubSeq(s, 1, Len(s) - 1)) ELSE s
Strip(s) == RStrip(LStrip(s))

\* re.match(r"\d{2}:\d{2}", s): the pattern is anchored at the start of s
\* only; whatever follows the fifth character is not looked at.
ReMatch(s) ==
    /\ Len(s) >= 5
    /\ s[1] \in DigitChars /\ s[2] \in DigitChars
    /\ s[3] = ":"
    /\ s[4] \in DigitChars /\ s[5] \in DigitChars

\* q.data.split("_")[1] and int(...) of it: Fails when either raises.
SplitFails(p) == Len(p) < 2 \/ ~IsInt(p[2])
SplitId(p)    == ToInt(p[2])

\* ---------------------------------------------------------------- inputs
\* ctx.args[0] of /remind: whitespace-free words.
T0830  == <<"0", "8", ":", "3", "0">>
T0705  == <<"0", "7", ":", "0", "5">>
T9999  == <<"9", "9", ":", "9", "9">>
T0830x == <<"0", "8", ":", "3", "0", "x">>
T830   == <<"8", ":", "3", "0">>
Off    == <<"o", "f", "f">>
Words  == {T0830, T0705, T9999, T0830x, T830, Off}
ArgLists == {<<>>} \cup {<<w>> : w \in Words}

\* datetime.now().strftime("%H:%M"): always two digits, colon, two digits,
\* hour 00..23 and minute 00..59.
Clock == {T0830, T0705}

\* Buttons of /mood: range(11).  The model presses two of them.
MoodVals == {3, 7}

\* Non-command message texts (Telegram delivers them without surrounding
\* whitespace).
Reading == <<"R", "e", "a", "d">>
GoWalk  == <<"G", "o", " ", "w", "a", "l", "k">>
Texts   == {Reading, GoWalk}

Sport == <<"S", "p", "o", "r", "t">>
Water == <<"W", "a", "t", "e", "r">>
Study == <<"S", "t", "u", "d", "y">>
DefaultHabits == <<Sport, Water, Study>>

VARIABLES
    habits,       \* table habits: rows [id, user_id, name], in id order
    seq,          \* sqlite_sequence of habits: the largest id ever assigned
    habit_logs,   \* table habit_logs: rows [user_id, habit_id, date, value]
    mood,         \* table mood: rows [user_id, date, value]
    reminders,    \* table reminders: rows [user_id, time], in user_id order
    conv,         \* ConversationHandler state per user (END = none)
    user_data,    \* ctx.user_data["edit_habit_id"] per user (None = unset)
    rendered,     \* callback payloads of the buttons rendered into the chat
    today,        \* the server's calendar date
    last,         \* the last handled event and what it produced
    tick          \* the last poll tick: the clock it read, the users it sent to,
                  \* whether a send raised

vars == <<habits, seq, habit_logs, mood, reminders, conv, user_data,
          rendered, today, last, tick>>

store == <<habits, seq, habit_logs, mood, reminders>>

\* ------------------------------------------------------- table helpers
Count(s, P(_)) == Len(SelectSeq(s, P))

RowsOfUser(tbl, u) == LET mine(r) == r.user_id = u IN SelectSeq(tbl, mine)

\* Insert a row into a table whose rowid is the row's user_id (INTEGER
\* PRIMARY KEY): rows stay in user_id order.
InsertByUser(tbl, row) ==
    LET before(r) == r.user_id <= row.user_id
        after(r)  == r.user_id > row.user_id
    IN  SelectSeq(tbl, before) \o <<row>> \o SelectSeq(tbl, after)

\* An inbound event: a command with its arguments, a button press with its
\* callback payload, or a non-command text message.
Command(name, args) ==
    [kind |-> "command", name |-> name, args |-> args, data |-> <<>>, text |-> <<>>]
Callback(data) ==
    [kind |-> "callback", name |-> "", args |-> <<>>, data |-> data, text |-> <<>>]
Message(text) ==
    [kind |-> "text", name |-> "", args |-> <<>>, data |-> <<>>, text |-> text]

NoEvent == Command("", <<>>)

\* What the last step did: the handler that ran, the user and event it ran
\* for, the text it replied and the inline keyboard it rendered.
Out(h, u, ev, text, kb) == [h |-> h, u |-> u, ev |-> ev, text |-> text, kb |-> kb]

Init ==
    /\ habits = <<>>
    /\ seq = 0
    /\ habit_logs = <<>>
    /\ mood = <<>>
    /\ reminders = <<>>
    /\ conv = [u \in Users |-> END]
    /\ user_data = [u \in Users |-> None]
    /\ rendered = {}
    /\ today = 1
    /\ last = Out("init", None, NoEvent, "", <<>>)
    /\ tick = [now |-> <<>>, called |-> <<>>, sent |-> <<>>, raised |-> FALSE]

\* ------------------------------------------------------------ the clock
\* Midnight passes: datetime.now().strftime("%Y-%m-%d") yields the next date.
\* Dates are kept as day numbers; the formatting is injective on dates.
NextDay ==
    /\ today < MaxDay
    /\ today' = today + 1
    /\ last' = Out("midnight", None, NoEvent, "", <<>>)
    /\ UNCHANGED <<store, conv, user_data, rendered, tick>>

\* ------------------------------------------------------------- routing
\* Application.process_update over the handlers of _handlers, all in group
\* 0: the first handler whose check_update accepts the update handles it.
PlainCommands ==
    {"start", "menu", "week", "month", "calendar", "mood", "mood_progress", "remind"}

\* CallbackQueryHandler(pattern="^<prefix>_"): re.match on the payload.
HasPrefix(data, prefix) == Len(data) >= 2 /\ data[1] = prefix

\* ConversationHandler.check_update for the conversation key of user u:
\* without a state only the entry point is tried; with a state only that
\* state's handlers are (fallbacks is empty, allow_reentry is off).
ConvRouteReentry(u, ev) ==
    CASE ev.kind = "command" /\ ev.name = "customize" -> "customize"
      [] conv[u] = END -> "none"
      [] conv[u] = CHOOSING ->
            IF ev.kind = "callback" THEN "customize_action" ELSE "none"
      [] conv[u] = ADDING ->
            IF ev.kind = "text" THEN "add_habit" ELSE "none"
      [] conv[u] = REMOVING ->
            IF ev.kind = "callback" THEN "remove_habit" ELSE "none"
      [] conv[u] = EDITING ->
            IF ev.kind = "callback" THEN "edit_select" ELSE "none"
      [] conv[u] = EDITING_VALUE ->
            IF ev.kind = "text" THEN "edit_save" ELSE "none"
ConvRoute(u, ev) ==
    CASE conv[u] = END ->
            IF ev.kind = "command" /\ ev.name = "customize" THEN "customize" ELSE "none"
      [] conv[u] = CHOOSING ->
            IF ev.kind = "callback" THEN "customize_action" ELSE "none"
      [] conv[u] = ADDING ->
            IF ev.kind = "text" THEN "add_habit" ELSE "none"
      [] conv[u] = REMOVING ->
            IF ev.kind = "callback" THEN "remove_habit" ELSE "none"
      [] conv[u] = EDITING ->
            IF ev.kind = "callback" THEN "edit_select" ELSE "none"
      [] conv[u] = EDITING_VALUE ->
            IF ev.kind = "text" THEN "edit_save" ELSE "none"

RouteConvFirst(u, ev) ==
    CASE ev.kind = "command" /\ ev.name \in PlainCommands -> ev.name
      [] ConvRoute(u, ev) # "none" -> ConvRoute(u, ev)
      [] ev.kind = "callback" /\ HasPrefix(ev.data, "h") -> "toggle_habit"
      [] ev.kind = "callback" /\ HasPrefix(ev.data, "mood") -> "save_mood"
      [] ev.kind = "callback" /\ HasPrefix(ev.data, "cal") -> "calendar_pick"
      [] OTHER -> "none"
Route(u, ev) ==
    CASE ev.kind = "command" /\ ev.name \in PlainCommands -> ev.name
      [] ev.kind = "callback" /\ HasPrefix(ev.data, "h") -> "toggle_habit"
      [] ev.kind = "callback" /\ HasPrefix(ev.data, "mood") -> "save_mood"
      [] ev.kind = "callback" /\ HasPrefix(ev.data, "cal") -> "calendar_pick"
      [] OTHER -> ConvRoute(u, ev)

\* ------------------------------------------------------ habits, today
UserHabits(hs, uid) == LET mine(r) == r.user_id = uid IN SelectSeq(hs, mine)
user_habits(uid) == UserHabits(habits, uid)

\* The id of an INSERT INTO habits: the column is INTEGER PRIMARY KEY
\* AUTOINCREMENT, so the id is one more than the largest id ever assigned
\* (n, kept in sqlite_sequence), not one more than the largest id present.
RECURSIVE MaxId(_)
MaxId(hs) ==
    IF hs = <<>> THEN 0
    ELSE LET m == MaxId(Tail(hs)) IN IF Head(hs).id > m THEN Head(hs).id ELSE m
NextIdRowid(hs, n) == MaxId(hs) + 1
NextId(hs, n) == n + 1

\* The three INSERTs of start: ids n+1, n+2, n+3, n being the id before the
\* first of them.
SeedDefaults(hs, n, uid) ==
    hs \o [i \in 1..3 |-> [id |-> n + i, user_id |-> uid, name |-> DefaultHabits[i]]]

LogRows(logs, uid, hid, d) ==
    LET at(r) == r.user_id = uid /\ r.habit_id = hid /\ r.date = d
    IN  SelectSeq(logs, at)

\* "checked" if row and row[0] else "unchecked", row being fetchone().
Mark(logs, uid, hid, d) ==
    LET rows == LogRows(logs, uid, hid, d)
    IN  IF rows # <<>> /\ rows[1].value # 0 THEN "checked" ELSE "unchecked"

Keyboard(hs, logs, uid, d) ==
    LET mine == UserHabits(hs, uid)
    IN  [i \in 1..Len(mine) |->
            [mark |-> Mark(logs, uid, mine[i].id, d),
             name |-> mine[i].name,
             data |-> <<"h", ToStr(mine[i].id)>>]]

KbData(kb) == {kb[i].data : i \in 1..Len(kb)}

\* "if not habits" of start.
SeedingAlways(mine) == TRUE
Seeding(mine) == mine = <<>>

\* The body of start, run for a /start command or at the end of
\* toggle_habit: seed the defaults when the user owns no habit, then render
\* one button per habit with today's mark.
TodayView(h, u, ev, logs) ==
    LET seeding == Seeding(user_habits(u))
        first == NextId(habits, seq)
        hs == IF seeding THEN SeedDefaults(habits, first - 1, u) ELSE habits
        kb == Keyboard(hs, logs, u, today)
    IN  /\ seeding => first + 2 <= MaxHabitId
        /\ habits' = hs
        /\ seq' = IF seeding THEN first + 2 ELSE seq
        /\ rendered' = rendered \cup KbData(kb)
        /\ last' = Out(h, u, ev, "Your habits today:", kb)

start(u) ==
    /\ Route(u, Command("start", <<>>)) = "start"
    /\ TodayView("start", u, Command("start", <<>>), habit_logs)
    /\ UNCHANGED <<habit_logs, mood, reminders, conv, user_data, today, tick>>

\* The SELECT / UPDATE / INSERT of toggle_habit on habit_logs.
ToggleLogsStuck(logs, uid, hid, d) ==
    LET at(r) == r.user_id = uid /\ r.habit_id = hid /\ r.date = d
    IN  IF SelectSeq(logs, at) # <<>>
        THEN [i \in 1..Len(logs) |->
                 IF at(logs[i]) THEN [logs[i] EXCEPT !.value = 1] ELSE logs[i]]
        ELSE Append(logs, [user_id |-> uid, habit_id |-> hid, date |-> d, value |-> 1])
ToggleLogsInsert(logs, uid, hid, d) ==
    LET at(r) == r.user_id = uid /\ r.habit_id = hid /\ r.date = d
        rows == SelectSeq(logs, at)
    IN  Append(logs, [user_id |-> uid, habit_id |-> hid, date |-> d,
                      value |-> IF rows = <<>> THEN 1 ELSE 1 - rows[1].value])
ToggleLogs(logs, uid, hid, d) ==
    LET at(r) == r.user_id = uid /\ r.habit_id = hid /\ r.date = d
        rows == SelectSeq(logs, at)
    IN  IF rows # <<>>
        THEN [i \in 1..Len(logs) |->
                 IF at(logs[i]) THEN [logs[i] EXCEPT !.value = 1 - rows[1].value]
                 ELSE logs[i]]
        ELSE Append(logs, [user_id |-> uid, habit_id |-> hid, date |-> d, value |-> 1])

toggle_habit(u, data) ==
    /\ data \in rendered
    /\ Route(u, Callback(data)) = "toggle_habit"
    /\ ~SplitFails(data)
    /\ LET logs == ToggleLogs(habit_logs, u, SplitId(data), today)
       IN  /\ Len(logs) <= MaxLogRows
           /\ habit_logs' = logs
           /\ TodayView("toggle_habit", u, Callback(data), logs)
    /\ UNCHANGED <<mood, reminders, conv, user_data, today, tick>>

\* ------------------------------------------------------------ customize
customize(u) ==
    /\ Route(u, Command("customize", <<>>)) = "customize"
    /\ conv' = [conv EXCEPT ![u] = CHOOSING]
    /\ rendered' = rendered \cup {<<"add">>, <<"edit">>, <<"remove">>}
    /\ last' = Out("customize", u, Command("customize", <<>>), "Customize habits:",
                   <<[mark |-> "", name |-> <<>>, data |-> <<"add">>],
                     [mark |-> "", name |-> <<>>, data |-> <<"edit">>],
                     [mark |-> "", name |-> <<>>, data |-> <<"remove">>]>>)
    /\ UNCHANGED <<store, user_data, today, tick>>

\* The buttons f"{action}_{hid}" of customize_action.
ChooseKeyboard(action, mine) ==
    [i \in 1..Len(mine) |->
        [mark |-> "", name |-> mine[i].name, data |-> action \o <<ToStr(mine[i].id)>>]]

customize_action(u, data) ==
    /\ data \in rendered
    /\ Route(u, Callback(data)) = "customize_action"
    /\ LET mine == user_habits(u)
           kb == ChooseKeyboard(data, mine)
       IN  IF data = <<"add">>
           THEN /\ conv' = [conv EXCEPT ![u] = ADDING]
                /\ last' = Out("customize_action", u, Callback(data),
                               "Send new habit name:", <<>>)
                /\ UNCHANGED rendered
           ELSE IF mine = <<>>
           THEN /\ conv' = [conv EXCEPT ![u] = END]
                /\ last' = Out("customize_action", u, Callback(data),
                               "No habits yet", <<>>)
                /\ UNCHANGED rendered
           ELSE /\ Len(data) < MaxParts
                /\ conv' = [conv EXCEPT ![u] =
                               IF data = <<"remove">> THEN REMOVING ELSE EDITING]
                /\ rendered' = rendered \cup KbData(kb)
                /\ last' = Out("customize_action", u, Callback(data),
                               "Choose habit:", kb)
    /\ UNCHANGED <<store, user_data, today, tick>>

add_habit(u, text) ==
    /\ Route(u, Message(text)) = "add_habit"
    /\ NextId(habits, seq) <= MaxHabitId
    /\ habits' = Append(habits, [id |-> NextId(habits, seq), user_id |-> u,
                                 name |-> Strip(text)])
    /\ seq' = NextId(habits, seq)
    /\ conv' = [conv EXCEPT ![u] = END]
    /\ last' = Out("add_habit", u, Message(text), "Habit added", <<>>)
    /\ UNCHANGED <<habit_logs, mood, reminders, user_data, rendered, today, tick>>

\* DELETE FROM habits WHERE id=?
DeleteHabit(hs, hid) == LET other(r) == r.id # hid IN SelectSeq(hs, other)

\* A handler that raises (IndexError of split("_")[1], ValueError of int)
\* returns no state: the conversation stays where it is.
Raised(h, u, ev) ==
    /\ last' = Out(h, u, ev, "raised", <<>>)
    /\ UNCHANGED <<store, conv, user_data, rendered, today, tick>>

remove_habit(u, data) ==
    /\ data \in rendered
    /\ Route(u, Callback(data)) = "remove_habit"
    /\ IF SplitFails(data) THEN Raised("remove_habit", u, Callback(data))
       ELSE /\ habits' = DeleteHabit(habits, SplitId(data))
            /\ conv' = [conv EXCEPT ![u] = END]
            /\ last' = Out("remove_habit", u, Callback(data), "Habit removed", <<>>)
            /\ UNCHANGED <<seq, habit_logs, mood, reminders, user_data, rendered,
                           today, tick>>

edit_select(u, data) ==
    /\ data \in rendered
    /\ Route(u, Callback(data)) = "edit_select"
    /\ IF SplitFails(data) THEN Raised("edit_select", u, Callback(data))
       ELSE /\ user_data' = [user_data EXCEPT ![u] = SplitId(data)]
            /\ conv' = [conv EXCEPT ![u] = EDITING_VALUE]
            /\ last' = Out("edit_select", u, Callback(data), "Send new habit name:", <<>>)
            /\ UNCHANGED <<store, rendered, today, tick>>

\* UPDATE habits SET name=? WHERE id=?
RenameHabit(hs, hid, name) ==
    [i \in 1..Len(hs) |-> IF hs[i].id = hid THEN [hs[i] EXCEPT !.name = name] ELSE hs[i]]

edit_save(u, text) ==
    /\ Route(u, Message(text)) = "edit_save"
    /\ habits' = RenameHabit(habits, user_data[u], Strip(text))
    /\ conv' = [conv EXCEPT ![u] = END]
    /\ last' = Out("edit_save", u, Message(text), "Habit updated", <<>>)
    /\ UNCHANGED <<seq, habit_logs, mood, reminders, user_data, rendered, today, tick>>

\* An update no handler accepts is dropped.
unhandled(u, ev) ==
    /\ ev.kind = "callback" => ev.data \in rendered
    /\ Route(u, ev) = "none"
    /\ last' = Out("none", u, ev, "", <<>>)
    /\ UNCHANGED <<store, conv, user_data, rendered, today, tick>>

\* The process restarts: the tables and the chat's messages persist, the
\* in-memory conversations and user_data are gone.
Restart ==
    /\ conv' = [u \in Users |-> END]
    /\ user_data' = [u \in Users |-> None]
    /\ last' = Out("restart", None, NoEvent, "", <<>>)
    /\ UNCHANGED <<store, rendered, today, tick>>

\* --------------------------------------------------------------- simple
\* /menu, /week, /month: a fixed reply.
simple(u, name) ==
    /\ name \in {"menu", "week", "month"}
    /\ Route(u, Command(name, <<>>)) = name
    /\ last' = Out(name, u, Command(name, <<>>), "reply", <<>>)
    /\ UNCHANGED <<store, conv, user_data, rendered, today, tick>>

\* f"cal_{d:%Y-%m-%d}": one token after the prefix.  A date is written as
\* its day number counted from six days before day 1.
DateStr(d) == ToStr(d + 5)

\* /calendar: seven buttons, today back to today - 6.
calendar(u) ==
    /\ Route(u, Command("calendar", <<>>)) = "calendar"
    /\ rendered' = rendered \cup {<<"cal", DateStr(today - i)>> : i \in 0..6}
    /\ last' = Out("calendar", u, Command("calendar", <<>>), "Select date:", <<>>)
    /\ UNCHANGED <<store, conv, user_data, today, tick>>

calendar_pick(u, data) ==
    /\ data \in rendered
    /\ Route(u, Callback(data)) = "calendar_pick"
    /\ last' = Out("calendar_pick", u, Callback(data), "Selected date", <<>>)
    /\ UNCHANGED <<store, conv, user_data, rendered, today, tick>>

\* ---------------------------------------------------------------- mood
\* /mood: eleven buttons mood_0 .. mood_10.
mood_command(u) ==
    /\ Route(u, Command("mood", <<>>)) = "mood"
    /\ rendered' = rendered \cup {<<"mood", ToStr(i)>> : i \in 0..10}
    /\ last' = Out("mood", u, Command("mood", <<>>), "Your mood:", <<>>)
    /\ UNCHANGED <<store, conv, user_data, today, tick>>

\* REPLACE INTO mood VALUES (uid, today, val).  The table mood has no
\* PRIMARY KEY and no UNIQUE index, so no existing row ever conflicts with
\* the new one: SQLite deletes nothing and inserts the row.
ReplaceIntoMood(tbl, row) == Append(tbl, row)

save_mood(u, data) ==
    /\ data \in rendered
    /\ Route(u, Callback(data)) = "save_mood"
    /\ ~SplitFails(data)
    /\ Len(mood) < MaxMoodRows
    /\ LET val == SplitId(data)
       IN  /\ mood' = ReplaceIntoMood(mood, [user_id |-> u, date |-> today, value |-> val])
           /\ last' = Out("save_mood", u, Callback(data), "Mood saved", <<>>)
    /\ UNCHANGED <<habits, seq, habit_logs, reminders, conv, user_data,
                   rendered, today, tick>>

mood_progress(u) ==
    /\ Route(u, Command("mood_progress", <<>>)) = "mood_progress"
    /\ last' = Out("mood_progress", u, Command("mood_progress", <<>>),
                   IF RowsOfUser(mood, u) = <<>> THEN "No mood data yet" ELSE "photo",
                   <<>>)
    /\ UNCHANGED <<store, conv, user_data, rendered, today, tick>>

\* ------------------------------------------------------------ reminders
\* REPLACE INTO reminders VALUES (uid, time): user_id is the PRIMARY KEY, so
\* the row of the same user is deleted before the new one is inserted.
ReplaceIntoRemindersNoKey(tbl, row) == InsertByUser(tbl, row)
ReplaceIntoReminders(tbl, row) ==
    LET other(r) == r.user_id # row.user_id
    IN  InsertByUser(SelectSeq(tbl, other), row)

DeleteReminder(tbl, uid) ==
    LET other(r) == r.user_id # uid IN SelectSeq(tbl, other)

remind(u, args) ==
    /\ Route(u, Command("remind", args)) = "remind"
    /\ IF args = <<>>
         THEN /\ last' = Out("remind", u, Command("remind", args), "/remind HH:MM or /remind off", <<>>)
              /\ UNCHANGED reminders
         ELSE IF args[1] = Off
         THEN /\ reminders' = DeleteReminder(reminders, u)
              /\ last' = Out("remind", u, Command("remind", args), "Reminder off", <<>>)
         ELSE IF ~ReMatch(args[1])
         THEN /\ last' = Out("remind", u, Command("remind", args), "Format HH:MM", <<>>)
              /\ UNCHANGED reminders
         ELSE /\ reminders' = ReplaceIntoReminders(reminders, [user_id |-> u, time |-> args[1]])
              /\ last' = Out("remind", u, Command("remind", args), "Reminder set", <<>>)
    /\ UNCHANGED <<habits, seq, habit_logs, mood, conv, user_data, rendered,
                   today, tick>>

\* The loop of send_reminders over the rows of reminders, in rowid order.
\* ctx.bot.send_message raises for the users in fail (a user who blocked the
\* bot, a network error); nothing catches it, so the loop ends there.
\* called: the users send_message was called for; sent: those it delivered to.
RECURSIVE Deliver(_, _, _)
Deliver(rows, now, fail) ==
    IF rows = <<>> THEN [called |-> <<>>, sent |-> <<>>, raised |-> FALSE]
    ELSE LET r == Head(rows) IN
         IF r.time # now THEN Deliver(Tail(rows), now, fail)
         ELSE IF r.user_id \in fail
         THEN [called |-> <<r.user_id>>, sent |-> <<>>, raised |-> TRUE]
         ELSE LET rest == Deliver(Tail(rows), now, fail)
              IN  [called |-> <<r.user_id>> \o rest.called,
                   sent   |-> <<r.user_id>> \o rest.sent,
                   raised |-> rest.raised]

send_reminders(now, fail) ==
    /\ LET d == Deliver(reminders, now, fail)
       IN  tick' = [now |-> now, called |-> d.called, sent |-> d.sent,
                    raised |-> d.raised]
    /\ last' = Out("send_reminders", None, NoEvent, "", <<>>)
    /\ UNCHANGED <<store, conv, user_data, rendered, today>>

\* ------------------------------------------------------- specifications
\* Buttons on screen among ds.
Press(ds) == rendered \cap ds

Next ==
    \/ \E u \in Users : start(u)
    \/ \E u \in Users, data \in rendered : toggle_habit(u, data)
    \/ \E u \in Users : customize(u)
    \/ \E u \in Users, data \in rendered : customize_action(u, data)
    \/ \E u \in Users, text \in Texts : add_habit(u, text)
    \/ \E u \in Users, data \in rendered : remove_habit(u, data)
    \/ \E u \in Users, data \in rendered : edit_select(u, data)
    \/ \E u \in Users, text \in Texts : edit_save(u, text)
    \/ \E u \in Users, name \in {"menu", "week", "month"} : simple(u, name)
    \/ \E u \in Users : calendar(u)
    \/ \E u \in Users, data \in rendered : calendar_pick(u, data)
    \/ \E u \in Users : mood_command(u)
    \/ \E u \in Users, data \in rendered : save_mood(u, data)
    \/ \E u \in Users : mood_progress(u)
    \/ \E u \in Users, args \in ArgLists : remind(u, args)
    \/ \E now \in Clock, fail \in SUBSET Users : send_reminders(now, fail)
    \/ \E u \in Users, data \in rendered : unhandled(u, Callback(data))
    \/ \E u \in Users, text \in Texts : unhandled(u, Message(text))
    \/ \E u \in Users : unhandled(u, Command("customize", <<>>))
    \/ NextDay
    \/ Restart

\* The whole bot.
Spec == Init /\ [][Next]_vars

\* The tables are written by disjoint groups of handlers, and no handler
\* reads a table outside its group, so each group of claims is checked
\* under the handlers of its group.

\* Mood: /mood, the mood buttons, midnight.
NextMood ==
    \/ \E u \in Users : mood_command(u)
    \/ \E u \in Users, v \in MoodVals : save_mood(u, <<"mood", ToStr(v)>>)
    \/ NextDay
SpecMood == Init /\ [][NextMood]_vars

\* Reminders: /remind and the poller.
NextRemind ==
    \/ \E u \in Users, args \in ArgLists : remind(u, args)
    \/ \E now \in Clock, fail \in SUBSET Users : send_reminders(now, fail)
SpecRemind == Init /\ [][NextRemind]_vars

\* Today-view and toggles: /start, the buttons of the first two habits,
\* midnight.
TogglePresses == {<<"h", "1">>, <<"h", "2">>}
NextToday ==
    \/ \E u \in Users : start(u)
    \/ \E u \in Users, data \in Press(TogglePresses) : toggle_habit(u, data)
    \/ NextDay
SpecToday == Init /\ [][NextToday]_vars

\* Seeding: /start and the remove flow.
NextSeed ==
    \/ \E u \in Users : start(u)
    \/ \E u \in Users : customize(u)
    \/ \E u \in Users, data \in Press({<<"remove">>}) : customize_action(u, data)
    \/ \E u \in Users, data \in rendered : remove_habit(u, data)
SpecSeed == Init /\ [][NextSeed]_vars

\* The add flow and the commands that can arrive in the middle of it.
NextAdd ==
    \/ \E u \in Users : start(u)
    \/ \E u \in Users : customize(u)
    \/ \E u \in Users, data \in Press({<<"add">>}) : customize_action(u, data)
    \/ \E u \in Users : add_habit(u, Reading)
    \/ \E u \in Users : mood_command(u)
SpecAdd == Init /\ [][NextAdd]_vars

\* The customize flow in a chat both users write to.  A menu or list the
\* bot sent keeps its buttons until one of them is pressed, so the list of
\* one user is on screen while the other user is in a flow, and the list of
\* a flow cut off by a restart is on screen in the next flow; either can be
\* pressed.  The model presses the buttons naming habits 1 and 2 and the
\* buttons rendered for a list button pressed as an action.
ChoosePresses == {<<"remove">>, <<"edit">>, <<"edit", "1">>}
RemovePresses == {<<"remove">>, <<"remove", "1">>, <<"edit", "1">>}
EditPresses ==
    {<<"edit">>, <<"edit", "1">>, <<"edit", "2">>, <<"edit", "1", "2">>,
     <<"edit", "1", "4">>}
NextFlow ==
    \/ \E u \in Users : start(u)
    \/ \E u \in Users : customize(u)
    \/ \E u \in Users, data \in Press(ChoosePresses) : customize_action(u, data)
    \/ \E u \in Users, data \in Press(RemovePresses) : remove_habit(u, data)
    \/ \E u \in Users, data \in Press(EditPresses) : edit_select(u, data)
    \/ \E u \in Users : edit_save(u, Reading)
    \/ Restart
SpecFlow == Init /\ [][NextFlow]_vars

\* Habits that go away: /start and the button of habit 3 for both users,
\* the remove flow for habits 1 and 3 and the add flow for the first user.
Editors == {1}
NextGone ==
    \/ \E u \in Users : start(u)
    \/ \E u \in Users, data \in Press({<<"h", "3">>}) : toggle_habit(u, data)
    \/ \E u \in Editors : customize(u)
    \/ \E u \in Editors, data \in Press({<<"add">>, <<"remove">>}) :
           customize_action(u, data)
    \/ \E u \in Editors, data \in Press({<<"remove", "1">>, <<"remove", "3">>}) :
           remove_habit(u, data)
    \/ \E u \in Editors : add_habit(u, Reading)
SpecGone == Init /\ [][NextGone]_vars

\* Buttons of the other handlers pressed in the middle of the first
\* user's flow, and flow buttons pressed outside a flow.  Every handler
\* that takes button presses is offered every button pressed here.
RoutePresses ==
    {<<"remove">>, <<"remove", "1">>, <<"h", "1">>, <<"mood", "3">>, <<"cal", "6">>}
NextRoute ==
    \/ \E u \in Users : start(u)
    \/ \E u \in Users : mood_command(u)
    \/ \E u \in Users : calendar(u)
    \/ \E u \in Editors : customize(u)
    \/ \E u \in Users, data \in Press(RoutePresses) : toggle_habit(u, data)
    \/ \E u \in Users, data \in Press(RoutePresses) : save_mood(u, data)
    \/ \E u \in Users, data \in Press(RoutePresses) : calendar_pick(u, data)
    \/ \E u \in Users, data \in Press(RoutePresses) : customize_action(u, data)
    \/ \E u \in Users, data \in Press(RoutePresses) : unhandled(u, Callback(data))
SpecRoute == Init /\ [][NextRoute]_vars

\* Input a flow state does not take: texts, commands and buttons arriving
\* in each state of the first user's flow.
DropPresses == {<<"add">>, <<"edit">>, <<"remove">>, <<"edit", "1">>, <<"h", "1">>}
NextDrop ==
    \/ \E u \in Users : start(u)
    \/ \E u \in Users : mood_command(u)
    \/ \E u \in Editors : customize(u)
    \/ \E u \in Users, data \in Press(DropPresses) : customize_action(u, data)
    \/ \E u \in Users, data \in Press(DropPresses) : edit_select(u, data)
    \/ \E u \in Users, data \in Press(DropPresses) : toggle_habit(u, data)
    \/ \E u \in Users, data \in Press(DropPresses) : unhandled(u, Callback(data))
    \/ \E u \in Users : unhandled(u, Message(Reading))
    \/ \E u \in Users : unhandled(u, Command("customize", <<>>))
    \/ Restart
SpecDrop == Init /\ [][NextDrop]_vars

\* ======================================================================
\* Claims
\* ======================================================================
MoodRows(u, d) == LET at(r) == r.user_id = u /\ r.date = d IN SelectSeq(mood, at)

\* C1: after any sequence of mood button presses the table mood holds at
\* most one row per (user, date), and that row carries the value of the
\* latest press for that (user, date).
C1_MoodOneRowLatest ==
    /\ \A u \in Users, d \in Days : Len(MoodRows(u, d)) <= 1
    /\ last.h = "save_mood" =>
          \A i \in 1..Len(MoodRows(last.u, today)) :
              MoodRows(last.u, today)[i].value = SplitId(last.ev.data)

\* C2: /remind 99:99 is rejected with the format error and leaves the
\* reminders table unchanged; /remind 08:30 writes the user's row; /remind
\* off deletes it.
C2_RemindScenario ==
    [][last'.h = "remind" =>
         /\ last'.ev.args = <<T9999>> =>
               last'.text = "Format HH:MM" /\ reminders' = reminders
         /\ last'.ev.args = <<T0830>> =>
               RowsOfUser(reminders', last'.u) = <<[user_id |-> last'.u, time |-> T0830]>>
         /\ last'.ev.args = <<Off>> =>
               RowsOfUser(reminders', last'.u) = <<>>]_vars

\* Exactly two digits, a colon and two digits, nothing before or after.
ReMatchFull(s) ==
    /\ Len(s) = 5
    /\ s[1] \in DigitChars /\ s[2] \in DigitChars
    /\ s[3] = ":"
    /\ s[4] \in DigitChars /\ s[5] \in DigitChars

\* C3: /remind with no argument, or with a first argument that is neither
\* "off" nor exactly two digits, a colon and two digits, replies with the
\* usage or format message and writes nothing; every time stored in the
\* reminders table is exactly of the form DD:DD.
C3_RemindStrictFormat ==
    [][/\ (/\ last'.h = "remind"
           /\ \/ last'.ev.args = <<>>
              \/ /\ last'.ev.args # <<>>
                 /\ last'.ev.args[1] # Off
                 /\ ~ReMatchFull(last'.ev.args[1]))
          => /\ last'.text \in {"/remind HH:MM or /remind off", "Format HH:MM"}
             /\ reminders' = reminders
       /\ \A i \in 1..Len(reminders') : ReMatchFull(reminders'[i].time)]_vars

\* C4: the reminders table holds at most one row per user; a reminder that
\* is set leaves exactly one row of that user, with the time just given;
\* /remind off leaves none; no /remind changes another user's row.
C4_OneReminderPerUser ==
    [][/\ \A u \in Users : Len(RowsOfUser(reminders', u)) <= 1
       /\ last'.h = "remind" =>
            /\ \A v \in Users \ {last'.u} :
                  RowsOfUser(reminders', v) = RowsOfUser(reminders, v)
            /\ last'.text = "Reminder set" =>
                  RowsOfUser(reminders', last'.u) =
                      <<[user_id |-> last'.u, time |-> last'.ev.args[1]]>>
            /\ last'.text = "Reminder off" =>
                  RowsOfUser(reminders', last'.u) = <<>>]_vars

\* C4 witness: a user whose earlier reminder fired at the last tick has just
\* set another time, while the other user keeps a row.
C4_Witness ==
    /\ last.h = "remind" /\ last.text = "Reminder set"
    /\ \E i \in 1..Len(tick.sent) : tick.sent[i] = last.u
    /\ last.ev.args[1] # tick.now
    /\ Len(reminders) = 2

\* C8: on every poll tick send_message is called exactly once for each user
\* whose stored time equals the clock's HH:MM, and for no other user.
C8_TickSendsEachMatchOnce ==
    last.h = "send_reminders" =>
        \A u \in Users :
            LET to(v) == v = u
                due(r) == r.user_id = u /\ r.time = tick.now
            IN  Count(tick.called, to) = IF Count(reminders, due) > 0 THEN 1 ELSE 0

\* The habits the today-view shows: completion value 1 for a checked mark.
Shown(logs, u, hid, d) == IF Mark(logs, u, hid, d) = "checked" THEN 1 ELSE 0

DefaultRows(n, u) ==
    [i \in 1..3 |-> [id |-> n + i, user_id |-> u, name |-> DefaultHabits[i]]]

\* C5: for a user with zero habits the today-view inserts exactly three
\* default habits owned by that user; invoked again by that user with no
\* other operation in between, it inserts none.
C5_SeedThreeOnce ==
    [][last'.h = "start" =>
         /\ UserHabits(habits, last'.u) = <<>> =>
               /\ habits' = habits \o DefaultRows(seq, last'.u)
               /\ Len(UserHabits(habits', last'.u)) = 3
         /\ (last.h = "start" /\ last.u = last'.u) => habits' = habits]_vars

\* C5 witness: a today-view has just left its user with exactly the three
\* defaults, seeded after three other habits had been created.
C5_Witness ==
    /\ last.h = "start"
    /\ seq = 6
    /\ UserHabits(habits, last.u) = DefaultRows(3, last.u)

\* C6: every toggle flips the completion value shown for its (user, habit)
\* today, an absent row counting as 0, and toggling it twice gives back the
\* value shown before.
C6_ToggleTwiceRestores ==
    [][/\ last'.h = "toggle_habit" =>
            Shown(habit_logs', last'.u, SplitId(last'.ev.data), today') =
                1 - Shown(habit_logs, last'.u, SplitId(last'.ev.data), today)
       /\ \A u \in Users, hid \in 1..MaxHabitId :
            LET once  == ToggleLogs(habit_logs', u, hid, today')
                twice == ToggleLogs(once, u, hid, today')
            IN  /\ Shown(once, u, hid, today') = 1 - Shown(habit_logs', u, hid, today')
                /\ Shown(twice, u, hid, today') = Shown(habit_logs', u, hid, today')]_vars

\* C6 witness: a second toggle of the day has just put the row back to 0.
C6_Witness ==
    /\ last.h = "toggle_habit"
    /\ LogRows(habit_logs, last.u, SplitId(last.ev.data), today) # <<>>
    /\ Shown(habit_logs, last.u, SplitId(last.ev.data), today) = 0

\* C7: habit_logs holds at most one row per (user, habit, date), every
\* value is 0 or 1, the first toggle of a day inserts value 1 and a later
\* toggle changes the existing row instead of inserting another.
C7_OneLogRowPerKey ==
    [][/\ \A u \in Users, hid \in 1..MaxHabitId, d \in Days :
            Len(LogRows(habit_logs', u, hid, d)) <= 1
       /\ \A i \in 1..Len(habit_logs') : habit_logs'[i].value \in {0, 1}
       /\ last'.h = "toggle_habit" =>
            LET u == last'.u
                hid == SplitId(last'.ev.data)
            IN  IF LogRows(habit_logs, u, hid, today) = <<>>
                THEN habit_logs' = Append(habit_logs,
                         [user_id |-> u, habit_id |-> hid, date |-> today, value |-> 1])
                ELSE /\ Len(habit_logs') = Len(habit_logs)
                     /\ LogRows(habit_logs', u, hid, today)[1].value =
                            1 - LogRows(habit_logs, u, hid, today)[1].value]_vars

\* C7 witness: the table holds two rows and a toggle has just flipped one
\* of them to 0.
C7_Witness ==
    /\ last.h = "toggle_habit"
    /\ Len(habit_logs) = 2
    /\ LogRows(habit_logs, last.u, SplitId(last.ev.data), today) # <<>>
    /\ LogRows(habit_logs, last.u, SplitId(last.ev.data), today)[1].value = 0

\* C9: the text sent in ADDING adds exactly one habit row (owner the user,
\* name the text) and ends the flow; for a user who had no habits other
\* than the defaults, the /start that follows shows four habits, the three
\* defaults and the new one.
C9_AddThenStartShowsFour ==
    [][/\ last'.h = "add_habit" =>
            /\ habits' = Append(habits, [id |-> seq', user_id |-> last'.u,
                                         name |-> last'.ev.text])
            /\ conv'[last'.u] = END
       /\ (/\ last.h = "add_habit"
           /\ last'.h = "start" /\ last'.u = last.u
           /\ \A i \in 1..Len(habits) :
                 (habits[i].user_id = last.u /\ habits[i].id # seq) =>
                     \E k \in 1..3 : habits[i].name = DefaultHabits[k])
          => /\ Len(last'.kb) = 4
             /\ [i \in 1..4 |-> last'.kb[i].name] = DefaultHabits \o <<last.ev.text>>]_vars

\* C10: a command handled outside the customize flow, arriving while the
\* user's flow is not idle, leaves the flow idle.
C10_CommandEndsFlow ==
    [][(last'.h \in PlainCommands /\ conv[last'.u] # END) => conv'[last'.u] = END]_vars

Ids(hs) == {hs[i].id : i \in 1..Len(hs)}
Rows(hs) == {hs[i] : i \in 1..Len(hs)}
ListPayloads(action, mine) == {<<action, ToStr(mine[i].id)>> : i \in 1..Len(mine)}

\* C11: a button press handled in CHOOSING moves the flow as follows and
\* in no other way: "add" to ADDING; "remove" to REMOVING and "edit" to
\* EDITING when the user owns a habit, rendering one button
\* <action>_<habitId> per habit; "remove" or "edit" to the end with the
\* store unchanged when the user owns none; any other payload moves the
\* flow neither to REMOVING nor to EDITING.  Only CHOOSING is left this way.
C11_ChoosingTransitions ==
    [][last'.h = "customize_action" =>
          LET u == last'.u
              data == last'.ev.data
              mine == user_habits(u)
          IN  /\ conv[u] = CHOOSING
              /\ data = <<"add">> => conv'[u] = ADDING
              /\ (data = <<"remove">> /\ mine # <<>>) =>
                     /\ conv'[u] = REMOVING
                     /\ KbData(last'.kb) = ListPayloads("remove", mine)
              /\ (data = <<"edit">> /\ mine # <<>>) =>
                     /\ conv'[u] = EDITING
                     /\ KbData(last'.kb) = ListPayloads("edit", mine)
              /\ (data \in {<<"remove">>, <<"edit">>} /\ mine = <<>>) =>
                     conv'[u] = END /\ store' = store
              /\ data \notin {<<"add">>, <<"remove">>, <<"edit">>} =>
                     conv'[u] \notin {REMOVING, EDITING}]_vars

\* C12: the button pressed in EDITING is the button of the habit whose id
\* is the payload's last token; that id is the one remembered, on every
\* path into EDITING, and the text received in EDITING_VALUE renames the
\* row of that id, changes no other row and ends the flow.
C12_EditRenamesPressedHabit ==
    [][(/\ (last'.h = "edit_select" /\ last'.text # "raised") =>
               LET data == last'.ev.data
               IN  user_data'[last'.u] = ToInt(data[Len(data)])
        /\ last'.h = "edit_save" =>
               LET u == last'.u
               IN  /\ conv'[u] = END
                   /\ Len(habits') = Len(habits)
                   /\ \A i \in 1..Len(habits) :
                          habits'[i] =
                              IF habits[i].id = user_data[u]
                              THEN [habits[i] EXCEPT !.name = Strip(last'.ev.text)]
                              ELSE habits[i])]_vars

\* C13: a remove step deletes the rows of the pressed id and nothing else
\* and leaves habit_logs as it was; a row inserted into habits gets an id
\* larger than every id assigned before, so the id of a deleted habit is
\* never assigned again; and a today-view renders buttons for the ids of
\* the user's present habits only, so the log rows of a deleted habit are
\* not rendered.
Dangling == {i \in 1..Len(habit_logs) : habit_logs[i].habit_id \notin Ids(habits)}
C13_RemoveLeavesLogsIdsNotReused ==
    [][(/\ (last'.h = "remove_habit" /\ last'.text # "raised") =>
               /\ habit_logs' = habit_logs
               /\ Rows(habits') =
                      {r \in Rows(habits) : r.id # ToInt(last'.ev.data[2])}
        /\ seq' >= seq
        /\ \A id \in Ids(habits') : id <= seq'
        /\ \A id \in Ids(habits') \ Ids(habits) : id > seq
        /\ last'.h \in {"start", "toggle_habit"} =>
               {ToInt(d[2]) : d \in KbData(last'.kb)} =
                   Ids(UserHabits(habits', last'.u)))]_vars
C13_Witness ==
    /\ last.h = "start"
    /\ Dangling # {}
    /\ \E i \in 1..Len(habits) : habits[i].name = Reading /\ habits[i].id = 4
    /\ 3 \notin Ids(habits)

\* C14: a toggle press whose payload names an id that no habit row carries
\* leaves habit_logs and habits as they were.
C14_ToggleUnknownIdNoOp ==
    [][(last'.h = "toggle_habit" /\ ToInt(last'.ev.data[2]) \notin Ids(habits)) =>
          habit_logs' = habit_logs /\ habits' = habits]_vars

\* C15: a today-view for a user who owns a habit changes nothing in the
\* store, and a today-view of a user that follows that user's removal of
\* a habit inserts no habit (the user was seeded before, and is not seeded
\* again).
C15_SeedingOneTime ==
    [][last'.h = "start" =>
          /\ user_habits(last'.u) # <<>> => store' = store
          /\ (last.h = "remove_habit" /\ last.text = "Habit removed"
                  /\ last.u = last'.u) => habits' = habits]_vars

\* The step delivers to user u input that u's flow state does not take: a
\* text in CHOOSING, REMOVING or EDITING, or a command or a button press
\* in ADDING or EDITING_VALUE.
NotTaken ==
    /\ last'.u \in Users
    /\ \/ /\ last'.ev.kind = "text"
          /\ conv[last'.u] \in {CHOOSING, REMOVING, EDITING}
       \/ /\ last'.ev.kind \in {"command", "callback"}
          /\ conv[last'.u] \in {ADDING, EDITING_VALUE}

C17_PrefixDecidesHandler ==
    [][last'.ev.kind = "callback" =>
          LET u == last'.u
              data == last'.ev.data
          IN  /\ HasPrefix(data, "h") => last'.h = "toggle_habit" /\ conv' = conv
              /\ HasPrefix(data, "mood") => last'.h = "save_mood" /\ conv' = conv
              /\ HasPrefix(data, "cal") => last'.h = "calendar_pick" /\ conv' = conv
              /\ (/\ ~HasPrefix(data, "h") /\ ~HasPrefix(data, "mood")
                  /\ ~HasPrefix(data, "cal") /\ conv[u] = END) =>
                     last'.h = "none" /\ store' = store /\ conv' = conv]_vars
C17_Witness ==
    /\ last.h = "save_mood"
    /\ conv[last.u] = REMOVING
    /\ \E v \in Users : conv[v] = END /\ <<"remove", "1">> \in rendered

\* C18: a remove step deletes, and an edit step renames, only rows of
\* habits owned by the user whose flow it is.
C18_OwnRowsOnly ==
    [][last'.h \in {"remove_habit", "edit_save"} =>
          \A r \in Rows(habits) \ Rows(habits') : r.user_id = last'.u]_vars

\* C20: a habit row disappears only in a step of remove_habit taken in
\* REMOVING for a press of the button remove_<id> of that row.
C20_DeleteOnlyByRemoveButton ==
    [][\A id \in Ids(habits) \ Ids(habits') :
          /\ last'.h = "remove_habit"
          /\ conv[last'.u] = REMOVING
          /\ last'.ev.data = <<"remove", ToStr(id)>>]_vars

\* C19: within one poll tick send_message is called for every user whose
\* stored time equals the clock's HH:MM, also when the send to another
\* matching user raised in that tick.
C19_FailedSendSparesOthers ==
    (last.h = "send_reminders" /\ tick.raised) =>
        \A i \in 1..Len(reminders) :
            reminders[i].time = tick.now =>
                \E k \in 1..Len(tick.called) : tick.called[k] = reminders[i].user_id

====
